---- MODULE Spec2Model ----
(***************************************************************************)
(* pytest-pdf: the result collector (PdfReport.pytest_runtest_logreport),  *)
(* the aggregation functions (_test_step_results, _test_case_results) and  *)
(* the document composer (PdfReport._story and the page builders it        *)
(* calls), modelled from src/pytest_pdf/pdf_report.py.                     *)
(***************************************************************************)
EXTENDS Naturals, Sequences, FiniteSets

VARIABLES
    reports,    \* PdfReport.reports: insertion-ordered dict, <<project, list>> entries
    report,     \* the TestReport made by pytest_runtest_makereport, not yet logged
    short,      \* config.getoption(Option.PDF_SHORT): fixed for the whole run
    session,    \* "running" until pytest_sessionfinish, then "finished"
    built,      \* the story handed to doc.multiBuild by _generate_report
    doc,        \* "none", "created" by _create_doc, "built": multiBuild wrote the file
    session_exitstatus, \* the exit status the host finished the session with, "" before
    longreprtext,   \* a raw error or skip text, as the host reports it
    phase,          \* the phase suffix passed with it: "", "setup" or "teardown"
    error_cell,     \* the Error/Reason cell made of them, None before
    stats,          \* a statistics tuple (passed, skipped, failed)
    chart,          \* the PieChartWithLegend made of it, None before
    cache,          \* the memo of the project resolver: <<top, bottom>> -> name
    markers,        \* the directories under which the marker path exists
    pc,             \* generate_report: the statement reached
    fetch,          \* per project, its about_impl: state and result
    completed,      \* the projects in the order their fetches completed
    abouts,         \* the list asyncio.gather returned
    project_about,  \* per project, the value assigned to project.about
    elements,       \* the list handed to group_by_key
    key_of,         \* the key callable handed to it, as a function on the things
    grouped         \* what group_by_key returned, None before the call

collector_vars == <<reports, report, short, session, built, doc, session_exitstatus>>

text_vars == <<longreprtext, phase, error_cell>>

chart_vars == <<stats, chart>>

resolver_vars == <<cache, markers>>

gather_vars == <<pc, fetch, completed, abouts, project_about>>

grouping_vars == <<elements, key_of, grouped>>

vars == <<collector_vars, text_vars, chart_vars, resolver_vars, gather_vars, grouping_vars>>

\* Upper bound on the number of records stored over all projects.
MaxReports == 3

----------------------------------------------------------------------------
(* The host's inputs: test items, execution phases, verdicts.              *)

\* Python's None, where a record may stand.
None == [none |-> TRUE]

WHENS == {"setup", "call", "teardown"}

\* LABELS and COLORS are parallel tuples.
LABELS == <<"passed", "skipped", "failed">>

COLORS == <<"lightgreen", "yellow", "orangered">>

OUTCOMES == {LABELS[i] : i \in 1..3}

\* A node id is the sequence of its pieces: the delimiters "::", "[" and "]"
\* and the texts between them, which hold no delimiter. NodeId gives
\* "<case>::<step>[<param>]", or "<case>::<step>" for the param "".
NodeId(case, step, param) ==
    <<case, "::", step>> \o (IF param = "" THEN <<>> ELSE <<"[", param, "]">>)

\* The test items of the run, each with the project the project hook gives
\* for it: two steps of case A (one parameterized), a step of case B in the
\* same project, and a step of another project. The host may run an item
\* more than once and in any order.
ITEMS ==
    { [project |-> "P1", nodeid |-> NodeId("A", "s1", "x"), funcargs |-> <<"x">>],
      [project |-> "P1", nodeid |-> NodeId("A", "s2", ""),  funcargs |-> <<>>],
      [project |-> "P1", nodeid |-> NodeId("B", "s1", ""),  funcargs |-> <<>>],
      [project |-> "P2", nodeid |-> NodeId("C", "s1", ""),  funcargs |-> <<>>] }

\* config.hook.pytest_pdf_report_project(item=item)[0]: the first result of
\* the project hook, which an implementation of the host that is tried first
\* gives ahead of the plugin's own constant "Project".
hook_pytest_pdf_report_project(item) == item.project

pytest_pdf_report_release(project_name) == "1.0.0"

pytest_pdf_report_packages(project_name) ==
    << <<"PACKAGE x", "1.0.0">>, <<"PACKAGE y", "1.0.1">> >>

pytest_pdf_report_additional_info(project_name) ==
    [name |-> "dev1",
     data |-> << <<"enpoint", "http://www.vodafone.de/">>, <<"username", "tester">> >>]

----------------------------------------------------------------------------
(* The ordered dict PdfReport.reports.                                     *)

RECURSIVE SumLen(_)
SumLen(entries) ==
    IF entries = <<>> THEN 0
    ELSE Len(Head(entries)[2]) + SumLen(Tail(entries))

HasKey(dict, k) == \E i \in 1..Len(dict) : dict[i][1] = k

\* A store keyed by the phase of the record instead of k: what C19 must
\* tell from AppendTo.
AppendTo_by_phase(dict, k, r) ==
    IF HasKey(dict, r.when)
    THEN [i \in 1..Len(dict) |->
            IF dict[i][1] = r.when THEN <<r.when, Append(dict[i][2], r)>> ELSE dict[i]]
    ELSE Append(dict, <<r.when, <<r>>>>)

\* self.reports[k].append(r) on a defaultdict(list): a missing key is
\* inserted, at the end, by the subscript.
AppendTo(dict, k, r) ==
    IF HasKey(dict, k)
    THEN [i \in 1..Len(dict) |->
            IF dict[i][1] = k THEN <<k, Append(dict[i][2], r)>> ELSE dict[i]]
    ELSE Append(dict, <<k, <<r>>>>)

\* A grouping that starts a new group whenever the key changes, as
\* itertools.groupby does: what C21 must tell from group_by_key.
RECURSIVE group_by_key_adjacent(_, _)
group_by_key_adjacent(things, key) ==
    IF things = <<>> THEN <<>>
    ELSE LET n      == Len(things)
             thing  == things[n]
             groups == group_by_key_adjacent(SubSeq(things, 1, n - 1), key)
             m      == Len(groups)
         IN  IF m > 0 /\ groups[m][1] = key[thing]
             THEN [groups EXCEPT ![m] = <<key[thing], Append(groups[m][2], thing)>>]
             ELSE Append(groups, <<key[thing], <<thing>>>>)

\* group_by_key of group_by_key.py: for thing in things:
\* groups[key(thing)].append(thing), on a defaultdict(list).
RECURSIVE group_by_key(_, _)
group_by_key(things, key) ==
    IF things = <<>> THEN <<>>
    ELSE LET n      == Len(things)
             thing  == things[n]
             groups == group_by_key(SubSeq(things, 1, n - 1), key)
         IN  AppendTo(groups, key[thing], thing)

----------------------------------------------------------------------------
(* nodeid_parts: the two groups of ^(.+)::([^][]+)(?:\[.+\])?$             *)

Max(S) == CHOOSE m \in S : \A n \in S : m >= n

BRACKETS == {"[", "]"}

\* The length of the longest prefix of text without a bracket: what
\* [^][]+ takes.
unbracketed(text) ==
    IF \E i \in 1..Len(text) : text[i] \in BRACKETS
    THEN (CHOOSE i \in 1..Len(text) :
            /\ text[i] \in BRACKETS
            /\ \A j \in 1..(i - 1) : text[j] \notin BRACKETS) - 1
    ELSE Len(text)

\* ([^][]+)(?:\[.+\])?$ matches all of text: a step name of at least one
\* piece, then nothing or "[", at least one piece, and a last "]".
step_matches(text) ==
    LET j == unbracketed(text)
    IN  /\ j >= 1
        /\ \/ j = Len(text)
           \/ /\ Len(text) >= j + 3
              /\ text[j + 1] = "["
              /\ text[Len(text)] = "]"

\* A matcher that takes an id without a match as a case path with an empty
\* step name: what C18 must tell from nodeid_pattern.match.
nodeid_pattern_match_lenient(nodeid) ==
    LET splits == {k \in 2..(Len(nodeid) - 1) :
                     nodeid[k] = "::" /\ step_matches(SubSeq(nodeid, k + 1, Len(nodeid)))}
    IN  IF splits = {} THEN [groups |-> <<nodeid, <<>>>>]
        ELSE LET k    == Max(splits)
                 rest == SubSeq(nodeid, k + 1, Len(nodeid))
             IN  [groups |-> <<SubSeq(nodeid, 1, k - 1),
                               SubSeq(rest, 1, unbracketed(rest))>>]

\* nodeid_pattern.match(nodeid): the match object with its groups, or None.
\* (.+) is greedy: it ends at the last "::" after which the rest matches.
nodeid_pattern_match(nodeid) ==
    LET splits == {k \in 2..(Len(nodeid) - 1) :
                     nodeid[k] = "::" /\ step_matches(SubSeq(nodeid, k + 1, Len(nodeid)))}
    IN  IF splits = {} THEN None
        ELSE LET k    == Max(splits)
                 rest == SubSeq(nodeid, k + 1, Len(nodeid))
             IN  [groups |-> <<SubSeq(nodeid, 1, k - 1),
                               SubSeq(rest, 1, unbracketed(rest))>>]

\* m.groups(): an AttributeError when m is None.
nodeid_parts(nodeid) == nodeid_pattern_match(nodeid).groups

----------------------------------------------------------------------------
(* Aggregation.                                                            *)

_test_step_results(rs) ==
    LET passed  == Len(SelectSeq(rs, LAMBDA r : r.when = "call" /\ r.outcome = "passed"))
        failed  == Len(SelectSeq(rs, LAMBDA r : r.when = "call" /\ r.outcome = "failed"))
        skipped == Len(SelectSeq(rs, LAMBDA r : r.when = "setup" /\ r.outcome = "skipped"))
    IN  <<passed, skipped, failed>>

\* The grouping key of every groupby call: lambda r: nodeid_parts(r.nodeid)[0].
test_case_key(r) == nodeid_parts(r.nodeid)[1]

\* A grouping that merges all elements with equal key, adjacent or not, as
\* group_by_key does: what C7 must tell from itertools.groupby.
RECURSIVE groupby_merged(_)
groupby_merged(rs) ==
    IF rs = <<>> THEN <<>>
    ELSE LET k == test_case_key(rs[1])
         IN  <<<<k, SelectSeq(rs, LAMBDA r : test_case_key(r) = k)>>>>
               \o groupby_merged(SelectSeq(rs, LAMBDA r : test_case_key(r) # k))

\* itertools.groupby(reports, test_case_key): the maximal runs of consecutive
\* elements with equal key, as <<key, run>> pairs in list order.
RECURSIVE groupby(_)
groupby(rs) ==
    IF rs = <<>> THEN <<>>
    ELSE LET k    == test_case_key(rs[1])
             stop == IF \E i \in 1..Len(rs) : test_case_key(rs[i]) # k
                     THEN CHOOSE i \in 1..Len(rs) :
                            /\ test_case_key(rs[i]) # k
                            /\ \A j \in 1..(i - 1) : test_case_key(rs[j]) = k
                     ELSE Len(rs) + 1
         IN  <<<<k, SubSeq(rs, 1, stop - 1)>>>>
               \o groupby(SubSeq(rs, stop, Len(rs)))

\* A rollup in which passed takes precedence over failed: what C3 must
\* tell from the rollup below.
RECURSIVE rollup_passed_first(_)
rollup_passed_first(groups) ==
    IF groups = <<>> THEN <<0, 0, 0>>
    ELSE LET rest == rollup_passed_first(Tail(groups))
             s    == _test_step_results(Head(groups)[2])
         IN  IF s[1] > 0 THEN <<rest[1] + 1, rest[2], rest[3]>>
             ELSE IF s[3] > 0 THEN <<rest[1], rest[2], rest[3] + 1>>
             ELSE <<rest[1], rest[2] + 1, rest[3]>>

\* A rollup that counts a group under every verdict it has a step of, as
\* if the elif were an if: what C24 must tell from the rollup below.
RECURSIVE rollup_every_verdict(_)
rollup_every_verdict(groups) ==
    IF groups = <<>> THEN <<0, 0, 0>>
    ELSE LET rest == rollup_every_verdict(Tail(groups))
             s    == _test_step_results(Head(groups)[2])
         IN  << rest[1] + (IF s[1] > 0 THEN 1 ELSE 0),
                rest[2] + (IF s[3] = 0 /\ s[1] = 0 THEN 1 ELSE 0),
                rest[3] + (IF s[3] > 0 THEN 1 ELSE 0) >>

\* The loop of _test_case_results over the case groups.
RECURSIVE rollup(_)
rollup(groups) ==
    IF groups = <<>> THEN <<0, 0, 0>>
    ELSE LET rest == rollup(Tail(groups))
             s    == _test_step_results(Head(groups)[2])
         IN  IF s[3] > 0 THEN <<rest[1], rest[2], rest[3] + 1>>
             ELSE IF s[1] > 0 THEN <<rest[1] + 1, rest[2], rest[3]>>
             ELSE <<rest[1], rest[2] + 1, rest[3]>>

_test_case_results(rs) == rollup(groupby(rs))

----------------------------------------------------------------------------
(* Text: a str is the sequence of its characters.                          *)

ELLIPSIS == <<".", ".", ".">>

ERROR_TEXT_MAX_LENGTH == 60

WHITESPACE == {" ", "\n", "\t"}

\* The texts the host reports: a skip reason and a failure representation.
SOURCE_PATH == <<"f", ".", "p", "y">>

SOURCE_LINE == <<"7">>

SKIP_REASON == <<"S", "k", "i", "p", "p", "e", "d", ":", " ", "n", "o", "\n", " ", "w", "a", "y">>

FAILURE_TEXT == <<"E", " ", " ", "a", "s", "s", "e", "r", "t", "\n", "F", "a", "l", "s", "e">>

SETUP_TEXT == <<"s", "e", "t", "u", "p">>

TEARDOWN_TEXT == <<"t", "e", "a", "r", "d", "o", "w", "n">>

\* str.split(): the maximal runs of non-whitespace characters.
RECURSIVE split(_)
split(text) ==
    IF text = <<>> THEN <<>>
    ELSE IF Head(text) \in WHITESPACE THEN split(Tail(text))
    ELSE LET stop == IF \E i \in 1..Len(text) : text[i] \in WHITESPACE
                     THEN CHOOSE i \in 1..Len(text) :
                            /\ text[i] \in WHITESPACE
                            /\ \A j \in 1..(i - 1) : text[j] \notin WHITESPACE
                     ELSE Len(text) + 1
         IN  <<SubSeq(text, 1, stop - 1)>> \o split(SubSeq(text, stop, Len(text)))

\* " ".join(words)
RECURSIVE join(_)
join(words) ==
    IF words = <<>> THEN <<>>
    ELSE IF Len(words) = 1 THEN words[1]
    ELSE words[1] \o <<" ">> \o join(Tail(words))

\* A formatter that cuts at ERROR_TEXT_MAX_LENGTH and then adds the
\* ellipsis: what C12 must tell from _error_text.
_error_text_cut_at_limit(error, when) ==
    LET lines  == split(error)
        error_ == join(SubSeq(lines, 2, Len(lines))) \o when
    IN  IF Len(error_) > ERROR_TEXT_MAX_LENGTH
        THEN SubSeq(error_, 1, ERROR_TEXT_MAX_LENGTH) \o ELLIPSIS
        ELSE error_

_error_text(error, when) ==
    LET lines      == split(error)
        error_     == join(SubSeq(lines, 2, Len(lines))) \o when
        max_length == ERROR_TEXT_MAX_LENGTH - Len(ELLIPSIS)
    IN  IF Len(error_) > max_length
        THEN SubSeq(error_, 1, max_length) \o ELLIPSIS
        ELSE error_

----------------------------------------------------------------------------
(* Flowables handed to the renderer.                                       *)

Paragraph(text, style) == [type |-> "Paragraph", text |-> text, style |-> style]

\* A Paragraph in the ad-hoc "Normal" style with a background color.
ColoredParagraph(text, color) ==
    [type |-> "Paragraph", text |-> text, style |-> "Normal", backColor |-> color]

\* reportlab's Table repeats no row unless repeatRows is given.
Table(data, repeatRows) == [type |-> "Table", data |-> data, repeatRows |-> repeatRows]

KeepTogether(flowables) == [type |-> "KeepTogether", flowables |-> flowables]

PageBreak == [type |-> "PageBreak"]

\* The numbers the legend prints, kept exactly: an int, or a float as a
\* count of units of 10^-ndigits.
Int(n) == [float |-> FALSE, units |-> n, ndigits |-> 0]

Float(units, ndigits) == [float |-> TRUE, units |-> units, ndigits |-> ndigits]

\* (dividend / divisor if divisor else 0) * 100: the float num/den, or the
\* int 0 for a zero divisor.
percent(dividend, divisor) ==
    IF divisor # 0
    THEN [float |-> TRUE, num |-> dividend * 100, den |-> divisor]
    ELSE [float |-> FALSE, num |-> 0, den |-> 1]

RECURSIVE Pow10(_)
Pow10(n) == IF n = 0 THEN 1 ELSE 10 * Pow10(n - 1)

\* A rounding towards zero: what C14 must tell from round.
round_down(number, ndigits) ==
    IF ~number.float THEN Int(number.num)
    ELSE Float((number.num * Pow10(ndigits)) \div number.den, ndigits)

\* The builtin round(number, ndigits): an int is returned as it is, a float
\* goes to the nearest multiple of 10^-ndigits, a tie to the even one.
round(number, ndigits) ==
    IF ~number.float THEN Int(number.num)
    ELSE LET scaled == number.num * Pow10(ndigits)
             q      == scaled \div number.den
             r      == scaled % number.den
             up     == (2 * r > number.den) \/ (2 * r = number.den /\ q % 2 = 1)
         IN  Float(IF up THEN q + 1 ELSE q, ndigits)

DIGITS == <<"0", "1", "2", "3", "4", "5", "6", "7", "8", "9">>

RECURSIVE digits(_)
digits(n) ==
    IF n < 10 THEN <<DIGITS[n + 1]>>
    ELSE digits(n \div 10) \o <<DIGITS[(n % 10) + 1]>>

RECURSIVE padded(_, _)
padded(n, width) ==
    IF width = 0 THEN <<>> ELSE padded(n \div 10, width - 1) \o <<DIGITS[(n % 10) + 1]>>

\* The decimals of a float's repr: no trailing zeros, at least one digit.
RECURSIVE decimals(_, _)
decimals(n, width) ==
    IF width > 1 /\ n % 10 = 0 THEN decimals(n \div 10, width - 1) ELSE padded(n, width)

\* str(number), as characters: "3" for an int, "33.33" or "50.0" for a float.
str(number) ==
    IF number.float
    THEN LET one == Pow10(number.ndigits)
         IN  digits(number.units \div one) \o <<".">>
               \o decimals(number.units % one, number.ndigits)
    ELSE digits(number.units)

RECURSIVE sum(_)
sum(data) == IF data = <<>> THEN 0 ELSE Head(data) + sum(Tail(data))

\* zip stops at the end of its shortest argument.
Min(S) == CHOOSE m \in S : \A n \in S : m <= n

zip(a, b) == [i \in 1..Min({Len(a), Len(b)}) |-> <<a[i], b[i]>>]

zip3(a, b, c) == [i \in 1..Min({Len(a), Len(b), Len(c)}) |-> <<a[i], b[i], c[i]>>]

\* None in a tuple of colors (names, here).
NO_COLOR == "None"

_LegendHeader ==
    [type |-> "Legend", colorNamePairs |-> << <<"", <<"Result", "Count", "Percent">> >> >>]

\* A legend that computes the percentage of the Sum row like the others:
\* what C15 must tell from _Legend.
_Legend_sum_computed(data, labels, colors_) ==
    LET sum_      == sum(data)
        labels_   == labels \o <<"Sum">>
        colors__  == colors_ \o <<NO_COLOR>>
        counts_   == [i \in 1..Len(data) |-> str(Int(data[i]))] \o <<str(Int(sum_))>>
        percents_ == [i \in 1..Len(data) |-> str(round(percent(data[i], sum_), 2))]
                       \o <<str(round(percent(sum_, sum_), 2))>>
        series    == zip3(labels_, counts_, percents_)
    IN  [type |-> "Legend", columnMaximum |-> Len(labels_),
         colorNamePairs |-> zip(colors__, series)]

_Legend(data, labels, colors_) ==
    LET sum_      == sum(data)
        labels_   == labels \o <<"Sum">>
        colors__  == colors_ \o <<NO_COLOR>>
        counts_   == [i \in 1..Len(data) |-> str(Int(data[i]))] \o <<str(Int(sum_))>>
        percents_ == [i \in 1..Len(data) |-> str(round(percent(data[i], sum_), 2))]
                       \o <<str(Float(1000, 1))>>
        series    == zip3(labels_, counts_, percents_)
    IN  [type |-> "Legend", columnMaximum |-> Len(labels_),
         colorNamePairs |-> zip(colors__, series)]

PieChartWithLegend(title, data, labels, colors_) ==
    [type |-> "PieChartWithLegend", title |-> title, data |-> data,
     labels |-> labels, colors_ |-> colors_,
     legend_header |-> _LegendHeader,
     legend |-> _Legend(data, labels, colors_)]

Drawing(contents) == [type |-> "Drawing", contents |-> contents]

index(tuple, x) == CHOOSE i \in 1..Len(tuple) : tuple[i] = x

----------------------------------------------------------------------------
(* The page builders.                                                      *)

TEST_CASE_HEADER ==
    << Paragraph(<<"Skript">>, "header"), Paragraph(<<"Test Case Id">>, "header"),
       Paragraph(<<"Passed">>, "header"), Paragraph(<<"Skipped">>, "header"),
       Paragraph(<<"Failed">>, "header") >>

_test_case_page(rs, heading) ==
    LET test_cases == groupby(rs)
        row(g) ==
            LET s == _test_step_results(g[2])
            IN  << Paragraph(<<"...">>, "cell_left"),
                   Paragraph(<<g[1]>>, "cell_left"),
                   Paragraph(str(Int(s[1])), "cell_center"),
                   Paragraph(str(Int(s[2])), "cell_center"),
                   Paragraph(str(Int(s[3])), "cell_center") >>
        table_data == <<TEST_CASE_HEADER>>
                        \o [i \in 1..Len(test_cases) |-> row(test_cases[i])]
    IN  KeepTogether(<<heading, Table(table_data, 0)>>)

TEST_STEP_HEADER ==
    << Paragraph(<<"Test Step Id">>, "header"), Paragraph(<<"Parameter">>, "header"),
       Paragraph(<<"Result">>, "header"), Paragraph(<<"Error/Reason">>, "header") >>

\* One data row of a step table; previous_test_step_id is falsy (<<>> here, None
\* in the code) on the first row.
test_step_row(r, previous_test_step_id) ==
    LET test_step_id == nodeid_parts(r.nodeid)[2]
        test_step_id_paragraph ==
            IF previous_test_step_id # <<>> /\ previous_test_step_id = test_step_id
            THEN Paragraph(<<>>, "cell_left")
            ELSE Paragraph(<<test_step_id>>, "cell_left")
        parameter_paragraphs == Paragraph(r.parameters, "cell_left")
        result_paragraph ==
            ColoredParagraph(<<r.outcome>>, COLORS[index(LABELS, r.outcome)])
        when   == IF r.outcome = "failed"
                  THEN (CASE r.when = "setup"    -> SETUP_TEXT
                          [] r.when = "teardown" -> TEARDOWN_TEXT
                          [] OTHER               -> <<>>)
                  ELSE <<>>
        reason == CASE r.outcome = "skipped" -> r.longrepr[3]
                    [] r.outcome = "failed"  -> r.longrepr[1]
                    [] OTHER                 -> <<>>
        error_paragraph ==
            IF reason # <<>>
            THEN Paragraph(_error_text(reason, when), "cell_left")
            ELSE None
    IN  <<test_step_id_paragraph, parameter_paragraphs, result_paragraph, error_paragraph>>

\* Step tables whose previous_test_step_id is carried over from the last
\* row of the table before: what C22 must tell from the code.
test_step_tables_previous_kept(rs, repeatRows) ==
    LET test_cases == groupby(rs)
        previous(i, j) ==
            IF j > 1 THEN nodeid_parts(test_cases[i][2][j - 1].nodeid)[2]
            ELSE IF i > 1
                 THEN nodeid_parts(test_cases[i - 1][2][Len(test_cases[i - 1][2])].nodeid)[2]
                 ELSE <<>>
        table(i) ==
            Table(<<TEST_STEP_HEADER>>
                    \o [j \in 1..Len(test_cases[i][2]) |->
                          test_step_row(test_cases[i][2][j], previous(i, j))],
                  repeatRows)
    IN  [i \in 1..Len(test_cases) |-> <<test_cases[i][1], table(i)>>]

\* The generator's loop: one <<test_case_id, Table>> pair per case group.
test_step_tables(rs, repeatRows) ==
    LET test_cases == groupby(rs)
        previous(g, j) == IF j = 1 THEN <<>> ELSE nodeid_parts(g[j - 1].nodeid)[2]
        table(g) ==
            Table(<<TEST_STEP_HEADER>>
                    \o [j \in 1..Len(g) |-> test_step_row(g[j], previous(g, j))],
                  repeatRows)
    IN  [i \in 1..Len(test_cases) |-> <<test_cases[i][1], table(test_cases[i][2])>>]

\* The step tables without repeatRows=1: what C10 must tell from the code.
_test_steps_without_repeat_rows(rs) == test_step_tables(rs, 0)

_test_steps_grouped_by_test_case(rs) == test_step_tables(rs, 1)

\* Step pages that put the section heading into every unit: what C9 must
\* tell from the code.
_test_step_pages_heading_in_all(rs, heading) ==
    LET tables == _test_steps_grouped_by_test_case(rs)
    IN  [i \in 1..Len(tables) |->
            KeepTogether(<<heading, Paragraph(<<tables[i][1]>>, "h2"), tables[i][2]>>)]

_test_step_pages(rs, heading) ==
    LET tables == _test_steps_grouped_by_test_case(rs)
    IN  [i \in 1..Len(tables) |->
            IF heading # None /\ i = 1
            THEN KeepTogether(<<heading, Paragraph(<<tables[i][1]>>, "h2"), tables[i][2]>>)
            ELSE KeepTogether(<<Paragraph(<<tables[i][1]>>, "h2"), tables[i][2]>>)]

\* Error pages over all records, failed or not: what C8 must tell from the
\* code.
_test_step_error_pages_unfiltered(rs, heading) ==
    _test_step_pages(rs, Paragraph(<<"Test Step Errors">>, "h1"))

\* The heading passed in is not used: the function builds its own.
_test_step_error_pages(rs, heading) ==
    _test_step_pages(SelectSeq(rs, LAMBDA r : r.outcome = "failed"),
                     Paragraph(<<"Test Step Errors">>, "h1"))

_environment_page(name, heading) ==
    LET info == pytest_pdf_report_additional_info(name)
        table_data ==
            << << Paragraph(<<"Data key">>, "header"), Paragraph(<<"Value">>, "header") >> >>
              \o [i \in 1..Len(info.data) |->
                    << Paragraph(<<info.data[i][1]>>, "cell_left"),
                       Paragraph(<<info.data[i][2]>>, "cell_left") >>]
    IN  KeepTogether(<<heading, Table(table_data, 0)>>)

\* The parts of _story's loop body: the titles, the drawing with the two
\* charts, and the result pages of the layout mode.
story_titles(project_name) ==
    LET version  == pytest_pdf_report_release(project_name)
        env_name == pytest_pdf_report_additional_info(project_name).name
        tested_packages == pytest_pdf_report_packages(project_name)
    IN  << Paragraph(<<project_name, " ", version>>, "Title"),
           Paragraph(<<"Test report">>, "TITLE_STYLE"),
           Paragraph(<<"Environment:  ", env_name>>, "TITLE_STYLE"),
           Paragraph(<<"Tested software: ">> \o tested_packages, "TITLE_STYLE"),
           Paragraph(<<"Generated on: ", "now">>, "TITLE_STYLE") >>

story_charts(rs) ==
    Drawing(<< PieChartWithLegend("Test Cases", _test_case_results(rs), LABELS, COLORS),
               PieChartWithLegend("Test Steps ", _test_step_results(rs), LABELS, COLORS) >>)

story_result_pages(rs, short_) ==
    IF short_
    THEN <<_test_case_page(rs, Paragraph(<<"Test Case Results">>, "h1"))>>
           \o _test_step_error_pages(rs, Paragraph(<<"Test Step Errors">>, "h1"))
    ELSE _test_step_pages(rs, Paragraph(<<"Test Step Results">>, "h1"))

story_environment_page(project_name) ==
    _environment_page(pytest_pdf_report_additional_info(project_name).name,
                      Paragraph(<<"Environment Data">>, "h1"))

\* The blocks of a project with the result pages ahead of the charts: what
\* C6 must tell from the code.
project_flowables_results_first(project_name, rs, short_) ==
    story_titles(project_name) \o story_result_pages(rs, short_)
      \o <<story_charts(rs), PageBreak, story_environment_page(project_name)>>

\* The blocks of one project, as _story's loop body extends the story by.
project_flowables(project_name, rs, short_) ==
    story_titles(project_name) \o <<story_charts(rs), PageBreak>>
      \o story_result_pages(rs, short_) \o <<story_environment_page(project_name)>>

RECURSIVE story_of(_, _)
story_of(entries, short_) ==
    IF entries = <<>> THEN <<>>
    ELSE project_flowables(Head(entries)[1], Head(entries)[2], short_)
           \o story_of(Tail(entries), short_)

_story == story_of(reports, short)

----------------------------------------------------------------------------
(* The hooks.                                                              *)

\* TestReport.from_item_and_call plus the two attributes set on it. The
\* host fills longrepr from the outcome: nothing for a pass, the triple
\* (path, line, reason) for a skip, the failure representation otherwise.
from_item_and_call(item, when, outcome, project) ==
    [nodeid     |-> item.nodeid,
     when       |-> when,
     outcome    |-> outcome,
     longrepr   |-> CASE outcome = "passed"  -> <<>>
                      [] outcome = "skipped" -> <<SOURCE_PATH, SOURCE_LINE, SKIP_REASON>>
                      [] outcome = "failed"  -> <<FAILURE_TEXT>>,
     project    |-> project,
     parameters |-> item.funcargs]

TestReport(item, when, outcome) ==
    from_item_and_call(item, when, outcome, hook_pytest_pdf_report_project(item))

----------------------------------------------------------------------------
(* The project resolver behind the project hook: an implementation of the  *)
(* hook specification pytest_pdf_project_name(top, bottom) that walks from *)
(* the directory of the test file up to the session root and looks for the *)
(* marker path impl/project, with a memo per run.                          *)

SESSION_ROOT == "root"

\* Path.parent on the files and directories of the run.
PARENT ==
    [path \in {"root/p/a/test_1.py", "root/q/b/test_3.py", "root/r/test_4.py",
               "root/p/a", "root/p", "root/q/b", "root/q", "root/r", "root"} |->
        CASE path = "root/p/a/test_1.py" -> "root/p/a"
          [] path = "root/q/b/test_3.py" -> "root/q/b"
          [] path = "root/r/test_4.py"   -> "root/r"
          [] path = "root/p/a"           -> "root/p"
          [] path = "root/q/b"           -> "root/q"
          [] path \in {"root/p", "root/q", "root/r", "root"} -> "root"]

\* directory / "impl/project", where a marker can be.
MARKER ==
    [path \in {"root/p", "root/q"} |->
        IF path = "root/p" THEN "root/p/impl/project" ELSE "root/q/impl/project"]

\* The markers that exist when the run starts, and the ones a run can create.
STATIC_MARKERS == {"root/p"}

LATE_MARKERS == {"root/q"}

\* Optional[str]: None as the empty name.
NO_NAME == ""

\* The walk: the marker of the first directory that has one, None when top
\* is reached without one.
RECURSIVE walk(_, _, _)
walk(top, current, marked) ==
    IF current \in marked THEN MARKER[current]
    ELSE IF current = top THEN NO_NAME
    ELSE walk(top, PARENT[current], marked)

\* A resolver without memo: what the memo must be told from.
pytest_pdf_project_name_uncached(top, bottom) == walk(top, PARENT[bottom], markers)

\* The memoized resolver: the remembered name of the pair, else the walk.
pytest_pdf_project_name(top, bottom) ==
    IF <<top, bottom>> \in DOMAIN cache
    THEN cache[<<top, bottom>>]
    ELSE walk(top, PARENT[bottom], markers)

\* The plugin's own implementation of the project hook.
pytest_pdf_report_project(item) == "Project"

\* Items with the file they are in: two steps of one file under the project
\* p, a step under q, which gets its marker late or never, and a step under
\* r, which never has one.
ITEMS_LOCATED ==
    { [fspath |-> "root/p/a/test_1.py", nodeid |-> NodeId("p/a/test_1.py", "s1", ""), funcargs |-> <<>>],
      [fspath |-> "root/p/a/test_1.py", nodeid |-> NodeId("p/a/test_1.py", "s2", ""), funcargs |-> <<>>],
      [fspath |-> "root/q/b/test_3.py", nodeid |-> NodeId("q/b/test_3.py", "s1", ""), funcargs |-> <<>>],
      [fspath |-> "root/r/test_4.py",   nodeid |-> NodeId("r/test_4.py", "s1", ""),   funcargs |-> <<>>] }

\* The resolver has not run.
resolver_idle ==
    /\ cache = <<>>
    /\ markers = STATIC_MARKERS

\* generate_report of report.py is not running.
gather_idle ==
    /\ pc = "idle"
    /\ fetch = <<>>
    /\ completed = <<>>
    /\ abouts = <<>>
    /\ project_about = <<>>

\* group_by_key has not been called.
grouping_idle ==
    /\ elements = <<>>
    /\ key_of = <<>>
    /\ grouped = None

\* No text is being formatted outside the composer.
text_idle ==
    /\ longreprtext = <<>>
    /\ phase = <<>>
    /\ error_cell = None

\* No chart is being made outside the composer.
chart_idle ==
    /\ stats = <<0, 0, 0>>
    /\ chart = None

Init ==
    /\ reports = <<>>
    /\ report = None
    /\ short \in BOOLEAN
    /\ session = "running"
    /\ built = <<>>
    /\ doc = "none"
    /\ session_exitstatus = ""
    /\ text_idle
    /\ chart_idle
    /\ resolver_idle
    /\ gather_idle
    /\ grouping_idle

pytest_runtest_makereport(item, when, outcome) ==
    /\ session = "running"
    /\ report = None
    /\ SumLen(reports) < MaxReports
    /\ report' = TestReport(item, when, outcome)
    /\ UNCHANGED <<reports, short, session, built, doc, session_exitstatus,
                   text_vars, chart_vars, resolver_vars, gather_vars, grouping_vars>>

\* A filter that lets every setup report through: what C2 must tell from
\* the condition of pytest_runtest_logreport.
Accepted_any_setup(r) == (r.when = "call") \/ (r.when = "setup")

\* A filter that also lets every failed report through, whatever its
\* phase: what C23 must tell from the condition of pytest_runtest_logreport.
Accepted_any_failed(r) ==
    (r.when = "call") \/ (r.when = "setup" /\ r.outcome = "skipped") \/ (r.outcome = "failed")

\* The condition of pytest_runtest_logreport.
Accepted(r) ==
    (r.when = "call") \/ (r.when = "setup" /\ r.outcome = "skipped")

\* A collector that builds the document anew with every logged report:
\* what C16 must tell from pytest_runtest_logreport.
pytest_runtest_logreport_streaming ==
    /\ report # None
    /\ reports' = IF Accepted(report)
                  THEN AppendTo(reports, report.project, report)
                  ELSE reports
    /\ report' = None
    /\ doc' = "built"
    /\ built' = story_of(reports', short)
    /\ UNCHANGED <<short, session, session_exitstatus, text_vars, chart_vars, resolver_vars, gather_vars, grouping_vars>>

pytest_runtest_logreport ==
    /\ report # None
    /\ reports' = IF Accepted(report)
                  THEN AppendTo(reports, report.project, report)
                  ELSE reports
    /\ report' = None
    /\ UNCHANGED <<short, session, built, doc, session_exitstatus, text_vars, chart_vars, resolver_vars, gather_vars, grouping_vars>>

\* The exit status of a session: ExitCode.OK, TESTS_FAILED, INTERRUPTED.
EXIT_CODES == {"OK", "TESTS_FAILED", "INTERRUPTED"}

\* _story raises: nodeid_parts is called for every stored record (the case
\* chart of its project groups all of them) and fails on an id without match.
_story_raises ==
    \E i \in 1..Len(reports) : \E k \in 1..Len(reports[i][2]) :
        nodeid_pattern_match(reports[i][2][k].nodeid) = None

\* The host calls the hook once, when the run loop has ended or was
\* interrupted, with no report in flight; it gives OK only if no test failed.
\* _generate_report: the doc is created, the story is composed and handed
\* to doc.multiBuild, which writes the file. An exception of _story leaves
\* the hook before multiBuild and ends the session with an error.
pytest_sessionfinish(exitstatus) ==
    /\ session = "running"
    /\ report = None
    /\ exitstatus = "OK" =>
          \A i \in 1..Len(reports) : \A k \in 1..Len(reports[i][2]) :
              reports[i][2][k].outcome # "failed"
    /\ session_exitstatus' = exitstatus
    /\ IF _story_raises
       THEN /\ doc' = "created"
            /\ built' = built
            /\ session' = "error"
       ELSE /\ doc' = "built"
            /\ built' = _story
            /\ session' = "finished"
    /\ UNCHANGED <<reports, report, short, text_vars, chart_vars, resolver_vars, gather_vars, grouping_vars>>

Next ==
    \/ \E item \in ITEMS, when \in WHENS, outcome \in OUTCOMES :
          pytest_runtest_makereport(item, when, outcome)
    \/ pytest_runtest_logreport
    \/ \E exitstatus \in EXIT_CODES : pytest_sessionfinish(exitstatus)

Spec == Init /\ [][Next]_vars

\* Items with ids the pattern does not match, "A::s1[]" and "D", beside an
\* item of ITEMS.
ITEMS_ANY_ID ==
    { [project |-> "P1", nodeid |-> NodeId("A", "s1", "x"), funcargs |-> <<"x">>],
      [project |-> "P1", nodeid |-> <<"A", "::", "s1", "[", "]">>, funcargs |-> <<>>],
      [project |-> "P2", nodeid |-> <<"D">>, funcargs |-> <<>>] }

NextAnyId ==
    \/ \E item \in ITEMS_ANY_ID, when \in WHENS, outcome \in OUTCOMES :
          pytest_runtest_makereport(item, when, outcome)
    \/ pytest_runtest_logreport
    \/ \E exitstatus \in EXIT_CODES : pytest_sessionfinish(exitstatus)

SpecAnyId == Init /\ [][NextAnyId]_vars

\* Upper bound on the number of records stored in a run with the resolver.
MaxResolved == 2

\* pytest_runtest_makereport with the resolver registered ahead of the
\* plugin's own implementation of the project hook: the hook gives the
\* results that are not None, the resolver's first, and [0] takes the first.
pytest_runtest_makereport_located(item, when, outcome) ==
    /\ session = "running"
    /\ report = None
    /\ SumLen(reports) < MaxResolved
    /\ LET name    == pytest_pdf_project_name(SESSION_ROOT, item.fspath)
           results == (IF name # NO_NAME THEN <<name>> ELSE <<>>)
                        \o <<pytest_pdf_report_project(item)>>
       IN  /\ report' = from_item_and_call(item, when, outcome, results[1])
           /\ cache' = [args \in DOMAIN cache \cup {<<SESSION_ROOT, item.fspath>>} |->
                          IF args \in DOMAIN cache THEN cache[args] ELSE name]
    /\ UNCHANGED <<reports, short, session, built, doc, session_exitstatus, markers,
                   text_vars, chart_vars, gather_vars, grouping_vars>>

\* A marker directory appears while the session runs, between two calls of
\* the hooks.
mkdir_marker ==
    /\ session = "running"
    /\ report = None
    /\ \E directory \in LATE_MARKERS \ markers : markers' = markers \cup {directory}
    /\ UNCHANGED <<collector_vars, cache, text_vars, chart_vars, gather_vars, grouping_vars>>

NextResolve ==
    \/ \E item \in ITEMS_LOCATED, when \in WHENS, outcome \in {"passed", "skipped"} :
          pytest_runtest_makereport_located(item, when, outcome)
    \/ pytest_runtest_logreport
    \/ mkdir_marker
    \/ \E exitstatus \in EXIT_CODES : pytest_sessionfinish(exitstatus)

SpecResolve == Init /\ [][NextResolve]_vars

----------------------------------------------------------------------------
(* Vocabulary of the properties: written against the stored records and    *)
(* the built story directly, not through the operators above.              *)

\* The filter of the result collector: phase call with any verdict, or
\* phase setup with verdict skipped.
Qualifies(r) ==
    \/ r.when = "call"
    \/ r.when = "setup" /\ r.outcome = "skipped"

\* The case path and the step name of an id made by NodeId.
CasePath(r) == <<r.nodeid[1]>>

StepName(r) == <<r.nodeid[3]>>

Lists == {reports[i][2] : i \in 1..Len(reports)}

IsPrefix(a, b) == Len(a) <= Len(b) /\ \A i \in 1..Len(a) : a[i] = b[i]

\* The positions at which a case group (a maximal run of consecutive
\* records with the same case path) starts, and the last position of the
\* group starting at i.
GroupStarts(rs) ==
    {i \in 1..Len(rs) : i = 1 \/ CasePath(rs[i - 1]) # CasePath(rs[i])}

GroupEnd(rs, i) ==
    CHOOSE j \in i..Len(rs) :
        /\ \A k \in i..j : CasePath(rs[k]) = CasePath(rs[i])
        /\ j = Len(rs) \/ CasePath(rs[j + 1]) # CasePath(rs[i])

GroupHas(rs, i, when, outcome) ==
    \E k \in i..GroupEnd(rs, i) : rs[k].when = when /\ rs[k].outcome = outcome

----------------------------------------------------------------------------
(* C1: for every list of records the collector holds for a project, the    *)
(* step statistics satisfy passed + skipped + failed = number of records   *)
(* in the list.                                                            *)
C1_StepStatisticsSumToCount ==
    \A rs \in Lists :
        LET s == _test_step_results(rs)
        IN  s[1] + s[2] + s[3] = Len(rs)

----------------------------------------------------------------------------
(* C2: logging a report that qualifies appends it at the end of the list   *)
(* of its project (a new project entering after the existing ones) and     *)
(* changes nothing else; logging any other report changes no list and      *)
(* creates no entry. No step modifies, reorders or removes a stored        *)
(* record, and every list holds only qualifying records of its project.    *)
C2_Logged(r) ==
    IF Qualifies(r)
    THEN IF \E i \in 1..Len(reports) : reports[i][1] = r.project
         THEN /\ Len(reports') = Len(reports)
              /\ \A i \in 1..Len(reports) :
                    /\ reports'[i][1] = reports[i][1]
                    /\ reports'[i][2] = IF reports[i][1] = r.project
                                        THEN reports[i][2] \o <<r>>
                                        ELSE reports[i][2]
         ELSE /\ Len(reports') = Len(reports) + 1
              /\ \A i \in 1..Len(reports) : reports'[i] = reports[i]
              /\ reports'[Len(reports')] = <<r.project, <<r>>>>
    ELSE reports' = reports

C2_AppendOnly ==
    /\ Len(reports') >= Len(reports)
    /\ \A i \in 1..Len(reports) :
          /\ reports'[i][1] = reports[i][1]
          /\ IsPrefix(reports[i][2], reports'[i][2])

C2_Partition ==
    /\ \A i, j \in 1..Len(reports) : reports[i][1] = reports[j][1] => i = j
    /\ \A i \in 1..Len(reports) :
          /\ reports[i][2] # <<>>
          /\ \A k \in 1..Len(reports[i][2]) :
                /\ reports[i][2][k].project = reports[i][1]
                /\ Qualifies(reports[i][2][k])

C2_CollectorFrame ==
    /\ []C2_Partition
    /\ [][/\ C2_AppendOnly
          /\ (report # None /\ report' = None) =>
                (C2_Logged(report) /\ UNCHANGED <<short, session, built>>)]_vars

\* A report that does not qualify is about to be logged while two projects
\* hold records.
C2_Witness ==
    /\ report # None
    /\ ~Qualifies(report)
    /\ Len(reports) = 2

----------------------------------------------------------------------------
(* C3: the case statistics count every case group exactly once: as failed  *)
(* if the group has a failed step, else as passed if it has a passed       *)
(* step, else as skipped; their sum is the number of case groups. For the  *)
(* list [(A,1,call,passed),(A,2,call,failed),(B,1,setup,skipped)] the step *)
(* statistics are (1,1,1) and the case statistics are (0,1,1).             *)
C3_Scenario(rs) ==
    /\ Len(rs) = 3
    /\ <<CasePath(rs[1]), CasePath(rs[2]), CasePath(rs[3])>> = <<<<"A">>, <<"A">>, <<"B">>>>
    /\ StepName(rs[1]) # StepName(rs[2])
    /\ <<rs[1].when, rs[1].outcome>> = <<"call", "passed">>
    /\ <<rs[2].when, rs[2].outcome>> = <<"call", "failed">>
    /\ <<rs[3].when, rs[3].outcome>> = <<"setup", "skipped">>

C3_CaseRollup ==
    \A rs \in Lists :
        LET c       == _test_case_results(rs)
            failed  == {i \in GroupStarts(rs) : GroupHas(rs, i, "call", "failed")}
            passed  == {i \in GroupStarts(rs) \ failed : GroupHas(rs, i, "call", "passed")}
            skipped == (GroupStarts(rs) \ failed) \ passed
        IN  /\ c = <<Cardinality(passed), Cardinality(skipped), Cardinality(failed)>>
            /\ c[1] + c[2] + c[3] = Cardinality(GroupStarts(rs))
            /\ C3_Scenario(rs) =>
                  /\ _test_step_results(rs) = <<1, 1, 1>>
                  /\ c = <<0, 1, 1>>

\* The scenario's list is stored for a project.
C3_Witness == \E rs \in Lists : C3_Scenario(rs)

----------------------------------------------------------------------------
(* C4: within every project's list the records that share a case path are  *)
(* contiguous: no record of another case lies between two records of the   *)
(* same case.                                                              *)
C4_CasesContiguous ==
    \A rs \in Lists :
        \A i, j, k \in 1..Len(rs) :
            (i < j /\ j < k /\ CasePath(rs[i]) = CasePath(rs[k]))
                => CasePath(rs[j]) = CasePath(rs[i])

----------------------------------------------------------------------------
(* Reading the built story: the blocks of the n-th project run from its    *)
(* title (the one Paragraph in the sample "Title" style) up to the block   *)
(* before the next project's title.                                        *)

Finished == session = "finished"

IsParagraph(b, text, style) ==
    b.type = "Paragraph" /\ b.style = style /\ b.text = text

IsProjectTitle(b) == b.type = "Paragraph" /\ b.style = "Title"

TitlePositions == {i \in 1..Len(built) : IsProjectTitle(built[i])}

FirstBlock(n) ==
    CHOOSE i \in TitlePositions : Cardinality({j \in TitlePositions : j <= i}) = n

LastBlock(n) ==
    IF n = Cardinality(TitlePositions) THEN Len(built) ELSE FirstBlock(n + 1) - 1

Blocks(n) == SubSeq(built, FirstBlock(n), LastBlock(n))

HeaderTexts(t) == [c \in 1..Len(t.data[1]) |-> t.data[1][c].text[1]]

IsTableWith(b, header) ==
    b.type = "Table" /\ Len(b.data) >= 1 /\ HeaderTexts(b) = header

IsStepTable(b) ==
    IsTableWith(b, <<"Test Step Id", "Parameter", "Result", "Error/Reason">>)

IsCaseTable(b) ==
    IsTableWith(b, <<"Skript", "Test Case Id", "Passed", "Skipped", "Failed">>)

IsEnvironmentTable(b) == IsTableWith(b, <<"Data key", "Value">>)

IsSectionHeading(b) == b.type = "Paragraph" /\ b.style = "h1"

\* A keep-together unit that holds a table of the given kind.
IsStepUnit(b) ==
    b.type = "KeepTogether" /\ \E k \in 1..Len(b.flowables) : IsStepTable(b.flowables[k])

IsCaseUnit(b) ==
    b.type = "KeepTogether" /\ \E k \in 1..Len(b.flowables) : IsCaseTable(b.flowables[k])

IsEnvironmentUnit(b) ==
    b.type = "KeepTogether"
        /\ \E k \in 1..Len(b.flowables) : IsEnvironmentTable(b.flowables[k])

\* The step-detail units of the n-th project, in story order.
StepUnits(n) == SelectSeq(Blocks(n), IsStepUnit)

TableOf(u) == u.flowables[CHOOSE k \in 1..Len(u.flowables) : u.flowables[k].type = "Table"]

DataRows(t) == SubSeq(t.data, 2, Len(t.data))

\* A step unit in the shape [optional section heading, case heading, table].
WellFormedStepUnit(u) ==
    /\ u.type = "KeepTogether"
    /\ Len(u.flowables) \in {2, 3}
    /\ IsStepTable(u.flowables[Len(u.flowables)])
    /\ LET h == u.flowables[Len(u.flowables) - 1]
       IN  h.type = "Paragraph" /\ h.style = "h2" /\ Len(h.text) = 1
    /\ Len(u.flowables) = 3 => IsSectionHeading(u.flowables[1])

CaseHeading(u) == u.flowables[Len(u.flowables) - 1].text[1]

\* The data rows of a sequence of step units, each with its unit's case
\* heading, in story order.
RECURSIVE HeadedRows(_)
HeadedRows(units) ==
    IF units = <<>> THEN <<>>
    ELSE LET u    == Head(units)
             rows == DataRows(TableOf(u))
         IN  [k \in 1..Len(rows) |-> [heading |-> CaseHeading(u), row |-> rows[k]]]
               \o HeadedRows(Tail(units))

\* Row x shows record r: its verdict, its parameters, and its step name
\* or a blank in the step column.
RowShows(x, r) ==
    /\ Len(x) = 4
    /\ x[1].type = "Paragraph" /\ x[1].text \in {<<>>, <<StepName(r)>>}
    /\ x[2].type = "Paragraph" /\ x[2].text = r.parameters
    /\ x[3].type = "Paragraph" /\ x[3].text = <<r.outcome>>

----------------------------------------------------------------------------
(* C5: in the built story, between the environment table of a project and  *)
(* the title of the next project there is a page break.                    *)
C5_PageBreakBetweenProjects ==
    Finished =>
        \A i, j \in 1..Len(built) :
            (/\ i < j
             /\ IsEnvironmentUnit(built[i])
             /\ IsProjectTitle(built[j])
             /\ \A k \in (i + 1)..(j - 1) : ~IsProjectTitle(built[k]))
                => \E k \in (i + 1)..(j - 1) : built[k].type = "PageBreak"

----------------------------------------------------------------------------
(* C6: the built story holds one run of blocks per project, in the order   *)
(* of the projects' entries (which is the order of their first accepted    *)
(* record), and in both layout modes each run is: the name-and-version     *)
(* title, "Test report", the environment name, the tested software, the    *)
(* generation time; one drawing with the "Test Cases" chart of the         *)
(* project's case statistics and the "Test Steps" chart of its step        *)
(* statistics; a page break; the result detail units; the environment      *)
(* table as the last block.                                                *)
C6_ProjectRun(n) ==
    LET b  == Blocks(n)
        p  == reports[n][1]
        rs == reports[n][2]
    IN  /\ Len(b) >= 8
        /\ b[1].text = <<p, " ", "1.0.0">>
        /\ IsParagraph(b[2], <<"Test report">>, "TITLE_STYLE")
        /\ IsParagraph(b[3], <<"Environment:  ", "dev1">>, "TITLE_STYLE")
        /\ b[4].type = "Paragraph" /\ b[4].text[1] = "Tested software: "
        /\ b[5].type = "Paragraph" /\ b[5].text[1] = "Generated on: "
        /\ b[6].type = "Drawing"
        /\ Len(b[6].contents) = 2
        /\ b[6].contents[1].title = "Test Cases"
        /\ b[6].contents[1].data = _test_case_results(rs)
        /\ b[6].contents[2].title = "Test Steps "
        /\ b[6].contents[2].data = _test_step_results(rs)
        /\ b[7].type = "PageBreak"
        /\ \A k \in 8..(Len(b) - 1) : IsStepUnit(b[k]) \/ IsCaseUnit(b[k])
        /\ IsEnvironmentUnit(b[Len(b)])
        /\ IsParagraph(b[Len(b)].flowables[1], <<"Environment Data">>, "h1")

C6_Layout ==
    Finished =>
        /\ Cardinality(TitlePositions) = Len(reports)
        /\ Len(built) > 0 => 1 \in TitlePositions
        /\ \A n \in 1..Len(reports) : C6_ProjectRun(n)

\* A project enters the dict after the ones that entered before it, when
\* its first record is accepted.
C6_FirstAcceptedOrder ==
    /\ Len(reports') >= Len(reports)
    /\ \A i \in 1..Len(reports) : reports'[i][1] = reports[i][1]
    /\ Len(reports') > Len(reports) =>
          /\ Len(reports') = Len(reports) + 1
          /\ report # None
          /\ Qualifies(report)
          /\ reports'[Len(reports')] = <<report.project, <<report>>>>

C6_FixedBlockOrder == []C6_Layout /\ [][C6_FirstAcceptedOrder]_vars

\* A story of two projects, the first of which holds two records.
C6_Witness ==
    /\ Finished
    /\ Len(reports) = 2
    /\ Len(reports[1][2]) = 2
    /\ Cardinality(TitlePositions) = 2

----------------------------------------------------------------------------
(* C7: in full mode the step-detail units of a project are one per case    *)
(* group of its list, in list order: their data rows, read in story order  *)
(* with their unit's case heading, show the records of the list one by     *)
(* one, whatever the verdict, every unit has a row, and adjacent units     *)
(* have different case headings. A case split into two runs has two units. *)
C7_FullModeProject(n) ==
    LET rs    == reports[n][2]
        units == StepUnits(n)
        rows  == HeadedRows(units)
    IN  /\ \A k \in 1..Len(units) : WellFormedStepUnit(units[k])
        /\ (\A k \in 1..Len(units) : WellFormedStepUnit(units[k])) =>
              /\ Len(rows) = Len(rs)
              /\ \A k \in 1..Len(rows) :
                    /\ k <= Len(rs)
                    /\ rows[k].heading = CasePath(rs[k])
                    /\ RowShows(rows[k].row, rs[k])
              /\ \A k \in 1..Len(units) : DataRows(TableOf(units[k])) # <<>>
              /\ \A k \in 1..(Len(units) - 1) :
                    CaseHeading(units[k]) # CaseHeading(units[k + 1])
              /\ Len(units) = Cardinality(GroupStarts(rs))

----------------------------------------------------------------------------
(* C8: in short mode the result detail units of a project are one          *)
(* case-overview table, with one row per case group of the list carrying   *)
(* the group's case path and its (passed, skipped, failed) step            *)
(* statistics, followed by step-detail units whose rows show the failed    *)
(* records of the list, in order, and nothing else: no passed or skipped   *)
(* record has a row, and a project without failed records has no           *)
(* step-detail unit.                                                       *)
NthGroupStart(rs, k) ==
    CHOOSE i \in GroupStarts(rs) : Cardinality({j \in GroupStarts(rs) : j <= i}) = k

C8_OverviewRow(x, rs, i) ==
    LET s == _test_step_results(SubSeq(rs, i, GroupEnd(rs, i)))
    IN  /\ Len(x) = 5
        /\ x[2].text = <<CasePath(rs[i])>>
        /\ <<x[3].text, x[4].text, x[5].text>>
              = <<str(Int(s[1])), str(Int(s[2])), str(Int(s[3]))>>

C8_ShortModeProject(n) ==
    LET rs     == reports[n][2]
        b      == Blocks(n)
        cases  == {k \in 1..Len(b) : IsCaseUnit(b[k])}
        steps  == {k \in 1..Len(b) : IsStepUnit(b[k])}
        failed == SelectSeq(rs, LAMBDA r : r.outcome = "failed")
        units  == StepUnits(n)
        rows   == HeadedRows(units)
    IN  /\ Cardinality(cases) = 1
        /\ \A c \in cases :
              /\ \A k \in steps : c < k
              /\ IsParagraph(b[c].flowables[1], <<"Test Case Results">>, "h1")
              /\ LET overview == DataRows(TableOf(b[c]))
                 IN  /\ Len(overview) = Cardinality(GroupStarts(rs))
                     /\ \A k \in 1..Len(overview) :
                           k <= Cardinality(GroupStarts(rs))
                               => C8_OverviewRow(overview[k], rs, NthGroupStart(rs, k))
        /\ \A k \in 1..Len(units) : WellFormedStepUnit(units[k])
        /\ (\A k \in 1..Len(units) : WellFormedStepUnit(units[k])) =>
              /\ Len(rows) = Len(failed)
              /\ \A k \in 1..Len(rows) :
                    /\ rows[k].row[3].text = <<"failed">>
                    /\ k <= Len(failed)
                    /\ rows[k].heading = CasePath(failed[k])
                    /\ RowShows(rows[k].row, failed[k])
              /\ \A k \in 1..Len(units) : DataRows(TableOf(units[k])) # <<>>
              /\ failed = <<>> => units = <<>>

C8_ShortModeDetails ==
    (Finished /\ short /\ Cardinality(TitlePositions) = Len(reports)) =>
        \A n \in 1..Len(reports) : C8_ShortModeProject(n)

\* A short-mode story of a project with a passed, a skipped and a failed
\* record.
C8_Witness ==
    /\ Finished
    /\ short
    /\ \E n \in 1..Len(reports) :
          /\ {reports[n][2][k].outcome : k \in 1..Len(reports[n][2])} = OUTCOMES
          /\ Len(StepUnits(n)) = 1

----------------------------------------------------------------------------
(* C9: among the step-detail units of one project every unit carries its   *)
(* case heading, and the section heading ("Test Step Results" in full      *)
(* mode, "Test Step Errors" in short mode) is the first flowable of the    *)
(* first unit and occurs in no other unit.                                 *)
SectionHeadings(u) ==
    {k \in 1..Len(u.flowables) : IsSectionHeading(u.flowables[k])}

C9_SectionHeadingOnce ==
    (Finished /\ Cardinality(TitlePositions) = Len(reports)) =>
        \A n \in 1..Len(reports) :
            LET units == StepUnits(n)
            IN  \A k \in 1..Len(units) :
                    /\ WellFormedStepUnit(units[k])
                    /\ k = 1 =>
                          /\ SectionHeadings(units[k]) = {1}
                          /\ units[k].flowables[1].text =
                                IF short THEN <<"Test Step Errors">>
                                         ELSE <<"Test Step Results">>
                    /\ k > 1 => SectionHeadings(units[k]) = {}

\* A project with two step-detail units in a short-mode story.
C9_Witness ==
    /\ Finished
    /\ short
    /\ \E n \in 1..Len(reports) : Len(StepUnits(n)) = 2

----------------------------------------------------------------------------
(* C10: every step-detail table repeats its first row (repeatRows = 1)     *)
(* and stands in a keep-together unit right after its case heading; no     *)
(* step-detail table is a block of the story on its own, and no unit       *)
(* holds two of them.                                                      *)
C10_KeepTogetherUnits ==
    Finished =>
        \A i \in 1..Len(built) :
            /\ built[i].type # "Table"
            /\ built[i].type = "KeepTogether" =>
                  LET fs     == built[i].flowables
                      tables == {k \in 1..Len(fs) : IsStepTable(fs[k])}
                  IN  /\ \A k \in 1..Len(fs) : fs[k].type \in {"Paragraph", "Table"}
                      /\ Cardinality(tables) <= 1
                      /\ \A k \in tables :
                            /\ fs[k].repeatRows = 1
                            /\ k > 1
                            /\ fs[k - 1].type = "Paragraph"
                            /\ fs[k - 1].style = "h2"

\* A story with a step-detail table of two data rows and another one.
C10_Witness ==
    /\ Finished
    /\ \E i, j \in 1..Len(built) :
          /\ i # j
          /\ IsStepUnit(built[i])
          /\ IsStepUnit(built[j])
          /\ Len(DataRows(TableOf(built[i]))) = 2

----------------------------------------------------------------------------
(* The Error/Reason cell on its own: the step table's formatting of a raw  *)
(* text, for the texts a host can report.                                  *)

\* Upper bound on the number of pieces (words, whitespace runs) of a raw text.
MaxPieces == 5

\* Length of the long word of the raw texts.
LongWordLen == 28

Repeat(c, n) == [i \in 1..n |-> c]

\* Words and whitespace runs of a raw text: the first word of a failure
\* representation, the first word of a skip reason, a long word, a blank,
\* a line break followed by indentation.
PIECES ==
    { <<"E">>,
      <<"S", "k", "i", "p", "p", "e", "d", ":">>,
      Repeat("a", LongWordLen),
      <<" ">>,
      <<"\n", " ", " ">> }

RECURSIVE concat(_)
concat(pieces) ==
    IF pieces = <<>> THEN <<>> ELSE Head(pieces) \o concat(Tail(pieces))

\* report.longreprtext or report.longrepr[2]: any text of at most MaxPieces pieces.
RAW_TEXTS ==
    { concat(pieces) : pieces \in UNION { [1..n -> PIECES] : n \in 0..MaxPieces } }

\* when: report.when for a failed setup or teardown, "" otherwise.
PHASES == {<<>>, SETUP_TEXT, TEARDOWN_TEXT}

\* Nothing is collected or composed while a single cell is looked at.
collector_idle ==
    /\ reports = <<>>
    /\ report = None
    /\ short = FALSE
    /\ session = "running"
    /\ built = <<>>
    /\ doc = "none"
    /\ session_exitstatus = ""

InitText ==
    /\ longreprtext \in RAW_TEXTS
    /\ phase \in PHASES
    /\ error_cell = None
    /\ collector_idle
    /\ chart_idle
    /\ resolver_idle
    /\ gather_idle
    /\ grouping_idle

\* if reason: text_ = self._error_text(error=reason, when=when);
\*            error_paragraph = Paragraph(text_, TABLE_CELL_STYLE_LEFT)
error_paragraph_of_reason ==
    /\ error_cell = None
    /\ longreprtext # <<>>
    /\ error_cell' = Paragraph(_error_text(longreprtext, phase), "cell_left")
    /\ UNCHANGED <<longreprtext, phase, collector_vars, chart_vars, resolver_vars, gather_vars, grouping_vars>>

NextText == error_paragraph_of_reason

SpecText == InitText /\ [][NextText]_vars

\* The text shown in the cell.
Shown == error_cell.text

\* The raw text with every whitespace run collapsed to one blank and no
\* whitespace at either end.
RECURSIVE Normalized(_)
Normalized(text) ==
    IF text = <<>> THEN <<>>
    ELSE IF Head(text) \in WHITESPACE
         THEN IF \A i \in 1..Len(text) : text[i] \in WHITESPACE
              THEN <<>>
              ELSE IF Len(text) > 1 /\ text[2] \in WHITESPACE
                   THEN Normalized(Tail(text))
                   ELSE <<" ">> \o Normalized(Tail(text))
         ELSE <<Head(text)>> \o Normalized(Tail(text))

\* Leading whitespace is no part of the normalized text.
RECURSIVE LeftStripped(_)
LeftStripped(text) ==
    IF text # <<>> /\ Head(text) \in WHITESPACE THEN LeftStripped(Tail(text)) ELSE text

\* C11: formatting a formatted text again changes nothing: for every raw
\* text formatted with an empty phase suffix to a text under the length
\* limit, formatting that text with an empty suffix gives it back.
C11_IdempotentOnShortText ==
    (error_cell # None /\ phase = <<>> /\ Len(Shown) < ERROR_TEXT_MAX_LENGTH) =>
        _error_text(Shown, <<>>) = Shown

\* C12: the text shown is at most ERROR_TEXT_MAX_LENGTH characters long,
\* the ellipsis included, holds no line break and no two whitespace
\* characters in a row, for every raw text and every phase suffix.
C12_DisplayTextBounded ==
    error_cell # None =>
        /\ Len(Shown) <= ERROR_TEXT_MAX_LENGTH
        /\ \A i \in 1..Len(Shown) : Shown[i] # "\n"
        /\ \A i \in 1..(Len(Shown) - 1) :
              ~(Shown[i] \in WHITESPACE /\ Shown[i + 1] \in WHITESPACE)

\* A truncated text made of a raw text with a line break, two whitespace
\* characters in a row and a phase suffix.
C12_Witness ==
    /\ error_cell # None
    /\ phase # <<>>
    /\ Len(Shown) = ERROR_TEXT_MAX_LENGTH
    /\ \E i \in 1..(Len(longreprtext) - 1) :
          longreprtext[i] = "\n" /\ longreprtext[i + 1] \in WHITESPACE

\* C13: a raw text longer than ERROR_TEXT_MAX_LENGTH, formatted with an
\* empty phase suffix, is shown as exactly ERROR_TEXT_MAX_LENGTH characters:
\* the first characters of the whitespace-normalized raw text, then the
\* ellipsis.
C13_Truncation ==
    (error_cell # None /\ phase = <<>> /\ Len(longreprtext) > ERROR_TEXT_MAX_LENGTH) =>
        LET kept   == ERROR_TEXT_MAX_LENGTH - Len(ELLIPSIS)
            source == Normalized(LeftStripped(longreprtext))
        IN  /\ Len(Shown) = ERROR_TEXT_MAX_LENGTH
            /\ SubSeq(Shown, kept + 1, Len(Shown)) = ELLIPSIS
            /\ Len(source) >= kept
            /\ SubSeq(Shown, 1, kept) = SubSeq(source, 1, kept)

----------------------------------------------------------------------------
(* A chart on its own: the legend made of a statistics tuple.              *)

\* Upper bound on each count of a statistics tuple.
MaxCount == 4

\* The tuples _test_step_results and _test_case_results can return.
STATS == {<<passed, skipped, failed>> : passed \in 0..MaxCount,
                                        skipped \in 0..MaxCount,
                                        failed \in 0..MaxCount}

InitChart ==
    /\ stats \in STATS
    /\ chart = None
    /\ collector_idle
    /\ text_idle
    /\ resolver_idle
    /\ gather_idle
    /\ grouping_idle

\* PieChartWithLegend(title=..., data=..., labels=LABELS, colors_=COLORS)
make_chart ==
    /\ chart = None
    /\ chart' = PieChartWithLegend("Test Steps ", stats, LABELS, COLORS)
    /\ UNCHANGED <<stats, collector_vars, text_vars, resolver_vars, gather_vars, grouping_vars>>

NextChart == make_chart

SpecChart == InitChart /\ [][NextChart]_vars

\* The rows of the legend: <<color, <<label, count, percent>>>>.
Rows == chart.legend.colorNamePairs

RowLabel(i) == Rows[i][2][1]

RowCount(i) == Rows[i][2][2]

RowPercent(i) == Rows[i][2][3]

Total == stats[1] + stats[2] + stats[3]

DigitValue(c) == CHOOSE d \in 0..9 : DIGITS[d + 1] = c

\* The number a string of decimal digits stands for.
RECURSIVE NatOf(_)
NatOf(text) ==
    IF text = <<>> THEN 0
    ELSE NatOf(SubSeq(text, 1, Len(text) - 1)) * 10 + DigitValue(text[Len(text)])

\* A printed number with at most two decimals, in hundredths.
Hundredths(text) ==
    IF \E i \in 1..Len(text) : text[i] = "."
    THEN LET dot  == CHOOSE i \in 1..Len(text) : text[i] = "."
             frac == SubSeq(text, dot + 1, Len(text))
         IN  NatOf(SubSeq(text, 1, dot - 1)) * 100
               + (IF Len(frac) = 1 THEN NatOf(frac) * 10 ELSE NatOf(frac))
    ELSE NatOf(text) * 100

\* C14: with a positive total the percentage printed for each label is the
\* hundredth nearest to 100 * count / total, and the three printed
\* percentages add up to 100 give or take one hundredth; with the total 0
\* every percentage printed is 0.
C14_Percentages ==
    chart # None =>
        IF Total > 0
        THEN /\ \A i \in 1..3 :
                  /\ 2 * Hundredths(RowPercent(i)) * Total <= 20000 * stats[i] + Total
                  /\ 20000 * stats[i] <= 2 * Hundredths(RowPercent(i)) * Total + Total
             /\ LET printed == Hundredths(RowPercent(1)) + Hundredths(RowPercent(2))
                                 + Hundredths(RowPercent(3))
                IN  printed \in 9999..10001
        ELSE \A i \in 1..3 : Hundredths(RowPercent(i)) = 0

\* A chart whose printed percentages add up to 99.99.
C14_Witness ==
    /\ chart # None
    /\ Total > 0
    /\ Hundredths(RowPercent(1)) + Hundredths(RowPercent(2)) + Hundredths(RowPercent(3)) = 9999

\* C15: the legend has the four rows passed, skipped, failed, Sum in this
\* order; each of the first three shows its label's color and the count at
\* its label's position of the statistics tuple, which is the position at
\* which both aggregations count that label; the Sum row has no color, the
\* sum of the three counts and the percentage 100.0.
C15_LegendRows ==
    chart # None =>
        /\ Len(Rows) = 4
        /\ <<RowLabel(1), RowLabel(2), RowLabel(3), RowLabel(4)>>
             = <<"passed", "skipped", "failed", "Sum">>
        /\ <<Rows[1][1], Rows[2][1], Rows[3][1]>> = <<"lightgreen", "yellow", "orangered">>
        /\ \A i \in 1..3 : NatOf(RowCount(i)) = stats[i]
        /\ Rows[4][1] = NO_COLOR
        /\ NatOf(RowCount(4)) = Total
        /\ RowPercent(4) = <<"1", "0", "0", ".", "0">>
        /\ \A item \in ITEMS, i \in 1..3 :
              LET r == TestReport(item, IF LABELS[i] = "skipped" THEN "setup" ELSE "call",
                                  LABELS[i])
              IN  /\ _test_step_results(<<r>>)[i] = 1
                  /\ _test_case_results(<<r>>)[i] = 1

\* The legend of the all-zero tuple.
C15_Witness ==
    /\ chart # None
    /\ Total = 0
    /\ Len(Rows) = 4

----------------------------------------------------------------------------
(* The session: when the document is composed and written.                 *)

\* C16: the document is composed and written in one step, the step that
\* ends the session, when no report is in flight; before it nothing is
\* composed or written, and after it no record is stored and nothing is
\* composed or written again.
C16_NothingBeforeFinish ==
    session = "running" => (doc = "none" /\ built = <<>>)

C16_GenerationStep ==
    /\ (doc' # doc \/ built' # built) =>
          /\ session = "running" /\ session' = "finished"
          /\ report = None
          /\ doc = "none"
    /\ (session = "running" /\ session' # "running") =>
          /\ doc' = "built"
          /\ reports' = reports
    /\ session # "running" =>
          (reports' = reports /\ doc' = doc /\ built' = built)

C16_OnceAtSessionFinish == []C16_NothingBeforeFinish /\ [][C16_GenerationStep]_vars

\* A finished session that stored records of two projects.
C16_Witness ==
    /\ session = "finished"
    /\ doc = "built"
    /\ Len(reports) = 2

\* C17: after a session that ended interrupted no record is kept and no
\* document was composed or written.
C17_NothingOnInterrupt ==
    session_exitstatus = "INTERRUPTED" =>
        (reports = <<>> /\ doc = "none" /\ built = <<>>)

\* An id of the form <case path>::<step name>, with or without a last part
\* [<param>]: the step name holds no bracket, no part is empty.
HasIdForm(nodeid) ==
    \E k \in 2..(Len(nodeid) - 1) :
        /\ nodeid[k] = "::"
        /\ \E j \in (k + 1)..Len(nodeid) :
              /\ \A i \in (k + 1)..j : nodeid[i] \notin {"[", "]"}
              /\ \/ j = Len(nodeid)
                 \/ /\ Len(nodeid) >= j + 3
                    /\ nodeid[j + 1] = "["
                    /\ nodeid[Len(nodeid)] = "]"

StoredMalformed ==
    \E i \in 1..Len(reports) : \E k \in 1..Len(reports[i][2]) :
        ~HasIdForm(reports[i][2][k].nodeid)

\* C18: a session that stored a record whose id has not the form above
\* ends with an error: no story is handed to the build and no file is
\* written.
C18_MalformedIdAborts ==
    (session # "running" /\ StoredMalformed) =>
        (session = "error" /\ doc # "built" /\ built = <<>>)

\* A session ended by the error, with a record of either kind stored.
C18_Witness ==
    /\ session = "error"
    /\ StoredMalformed
    /\ \E i \in 1..Len(reports) : \E k \in 1..Len(reports[i][2]) :
          HasIdForm(reports[i][2][k].nodeid)

----------------------------------------------------------------------------
(* Project resolution.                                                     *)

\* The file of a record: the file of the item with its id.
LocationOf(r) == (CHOOSE item \in ITEMS_LOCATED : item.nodeid = r.nodeid).fspath

\* The directories from the one of a file up to the session root.
RECURSIVE Upwards(_)
Upwards(path) ==
    IF path = SESSION_ROOT THEN {path} ELSE {path} \cup Upwards(PARENT[path])

Unresolvable(r) == Upwards(PARENT[LocationOf(r)]) \cap markers = {}

\* The stored records, each with the key of its partition, and the records
\* made so far that are still there: the stored ones and the one in flight.
Stored ==
    UNION {{<<reports[i][1], reports[i][2][k]>> : k \in 1..Len(reports[i][2])} :
             i \in 1..Len(reports)}

Made == {pair[2] : pair \in Stored} \cup (IF report # None THEN {report} ELSE {})

----------------------------------------------------------------------------
(* generate_report of report.py: the metadata of the projects is fetched   *)
(* by their coroutines about_impl, which asyncio.gather runs concurrently, *)
(* and assigned to the projects before the document is generated.          *)

\* Upper bound on the number of projects.
MaxProjects == 3

PROJECT_NAMES == <<"P1", "P2", "P3", "P4", "P5">>

\* Projects.projects(): the projects of the run, in their order.
PROJECTS == SubSeq(PROJECT_NAMES, 1, MaxProjects)

\* What the about_impl of a project can return: the metadata of that
\* project, as found at the time of the fetch.
ABOUTS(project) == {[project |-> project, version |-> version] : version \in {"1.0.0", "1.0.1"}}

\* A gather that gives the results in the order of completion: what C20
\* must tell from asyncio.gather.
gather_as_completed(tasks_, order) ==
    [i \in 1..Len(tasks_) |-> tasks_[order[i]].result]

\* await asyncio.gather(*tasks_): the results in the order of the
\* awaitables, in whatever order they completed.
gather(tasks_, order) ==
    [i \in 1..Len(tasks_) |-> tasks_[i].result]

InitGather ==
    /\ pc = "tasks"
    /\ fetch = <<>>
    /\ completed = <<>>
    /\ abouts = <<>>
    /\ project_about = <<>>
    /\ collector_idle
    /\ text_idle
    /\ chart_idle
    /\ resolver_idle
    /\ grouping_idle

\* projects = Projects.projects(); tasks = [project.about_impl for project in projects]
create_tasks ==
    /\ pc = "tasks"
    /\ fetch' = [i \in 1..Len(PROJECTS) |-> [state |-> "created", result |-> None]]
    /\ project_about' = [i \in 1..Len(PROJECTS) |-> None]
    /\ pc' = "gather"
    /\ UNCHANGED <<completed, abouts, collector_vars, text_vars, chart_vars, resolver_vars, grouping_vars>>

\* The event loop starts the awaitables in the order gather was given them.
about_impl_start(i) ==
    /\ pc = "gather"
    /\ fetch[i].state = "created"
    /\ \A j \in 1..(i - 1) : fetch[j].state # "created"
    /\ fetch' = [fetch EXCEPT ![i].state = "running"]
    /\ UNCHANGED <<pc, completed, abouts, project_about,
                   collector_vars, text_vars, chart_vars, resolver_vars, grouping_vars>>

\* A running fetch completes with its result, whenever its data arrives.
about_impl_return(i, about) ==
    /\ pc = "gather"
    /\ fetch[i].state = "running"
    /\ fetch' = [fetch EXCEPT ![i] = [state |-> "done", result |-> about]]
    /\ completed' = Append(completed, i)
    /\ UNCHANGED <<pc, abouts, project_about,
                   collector_vars, text_vars, chart_vars, resolver_vars, grouping_vars>>

\* abouts = asyncio.run(main(tasks)): gather returns when all are done.
run_main ==
    /\ pc = "gather"
    /\ \A i \in 1..Len(fetch) : fetch[i].state = "done"
    /\ abouts' = gather(fetch, completed)
    /\ pc' = "assign"
    /\ UNCHANGED <<fetch, completed, project_about,
                   collector_vars, text_vars, chart_vars, resolver_vars, grouping_vars>>

\* for project, about in zip(projects, abouts): project.about = about
assign_abouts ==
    /\ pc = "assign"
    /\ project_about' = [i \in 1..Len(PROJECTS) |->
                           IF i <= Len(abouts) THEN abouts[i] ELSE project_about[i]]
    /\ pc' = "generate"
    /\ UNCHANGED <<fetch, completed, abouts,
                   collector_vars, text_vars, chart_vars, resolver_vars, grouping_vars>>

\* generate_pdf_report(config): the document is composed and built.
generate_pdf_report ==
    /\ pc = "generate"
    /\ pc' = "generated"
    /\ UNCHANGED <<fetch, completed, abouts, project_about,
                   collector_vars, text_vars, chart_vars, resolver_vars, grouping_vars>>

NextGather ==
    \/ create_tasks
    \/ \E i \in 1..Len(PROJECTS) : about_impl_start(i)
    \/ \E i \in 1..Len(PROJECTS) : \E about \in ABOUTS(PROJECTS[i]) : about_impl_return(i, about)
    \/ run_main
    \/ assign_abouts
    \/ generate_pdf_report

SpecGather == InitGather /\ [][NextGather]_vars

\* C20: when the composition starts, and from then on, every fetch is
\* completed and every project has the result of its own fetch, which is
\* metadata of that project; while fetches can be running no project has
\* a result yet.
C20_Composing == pc \in {"generate", "generated"}

C20_FetchesJoined ==
    /\ C20_Composing =>
          \A i \in 1..Len(PROJECTS) :
              /\ fetch[i].state = "done"
              /\ project_about[i] = fetch[i].result
              /\ project_about[i].project = PROJECTS[i]
    /\ pc \in {"gather", "assign"} =>
          \A i \in 1..Len(PROJECTS) : project_about[i] = None

\* The document was generated after the fetches had completed in the
\* reverse of the projects' order.
C20_Witness ==
    /\ pc = "generated"
    /\ \A i \in 1..Len(completed) : completed[i] = Len(completed) + 1 - i

----------------------------------------------------------------------------
(* group_by_key, applied to bounded lists under every key function.        *)

\* Upper bound on the length of the list handed to group_by_key.
MaxThings == 4

\* The things of test_group_by_key.py: single-entry dicts, as <<key, value>>.
THINGS == {<<"a", 1>>, <<"a", 2>>, <<"z", 101>>}

\* The values a key callable can return.
KEY_VALUES == {"a", "z"}

\* The key callables; lambda e: list(e.keys())[0] of the test is among them.
KEY_FUNCTIONS == [THINGS -> KEY_VALUES]

THINGS_LISTS == UNION {[1..n -> THINGS] : n \in 0..MaxThings}

InitGroup ==
    /\ elements \in THINGS_LISTS
    /\ key_of \in KEY_FUNCTIONS
    /\ grouped = None
    /\ collector_idle
    /\ text_idle
    /\ chart_idle
    /\ resolver_idle
    /\ gather_idle

\* groups = group_by_key(things=things, key=...)
call_group_by_key ==
    /\ grouped = None
    /\ grouped' = [groups |-> group_by_key(elements, key_of)]
    /\ UNCHANGED <<elements, key_of, collector_vars, text_vars, chart_vars,
                   resolver_vars, gather_vars>>

NextGroup == call_group_by_key

SpecGroup == InitGroup /\ [][NextGroup]_vars

\* The keys of the returned mapping, in its order, and the group of each.
KeyAt(i) == grouped.groups[i][1]

GroupAt(i) == grouped.groups[i][2]

\* C21: the mapping group_by_key returns has, under every key, exactly
\* the elements of the list for which that key is computed, in their
\* original relative order; every element's key is in the mapping, the
\* groups together hold as many elements as the list, no key occurs
\* twice and no group is empty.
C21_GroupByKey ==
    grouped # None =>
        /\ \A i \in 1..Len(grouped.groups) :
              /\ GroupAt(i) = SelectSeq(elements, LAMBDA t : key_of[t] = KeyAt(i))
              /\ GroupAt(i) # <<>>
              /\ \A j \in 1..Len(grouped.groups) : KeyAt(i) = KeyAt(j) => i = j
        /\ \A n \in 1..Len(elements) :
              \E i \in 1..Len(grouped.groups) : KeyAt(i) = key_of[elements[n]]
        /\ SumLen(grouped.groups) = Len(elements)

\* A list was grouped in which two elements with the same key are
\* separated by an element with another key, and one element occurs twice.
C21_Witness ==
    /\ grouped # None
    /\ \E i, j, k \in 1..Len(elements) :
          /\ i < j /\ j < k
          /\ key_of[elements[i]] = key_of[elements[k]]
          /\ key_of[elements[i]] # key_of[elements[j]]
          /\ elements[i] = elements[k]

----------------------------------------------------------------------------
(* The step-identifier column of the step-detail tables.                   *)

\* The records the step-detail tables of a project list show: all of them
\* in full mode, the failed ones in short mode.
ShownRecords(rs) ==
    IF short THEN SelectSeq(rs, LAMBDA r : r.outcome = "failed") ELSE rs

\* The number of data rows in the step units before the i-th.
RowsBefore(units, i) ==
    sum([j \in 1..(i - 1) |-> Len(DataRows(TableOf(units[j])))])

StepCell(x) == x[1].text

\* C22: in every step-detail table of the built story, the step cell of a
\* data row is blank exactly when the row is not the first data row of its
\* table and the row before it, in the same table, is of the same step
\* name; every other row, the first of each table among them, shows its
\* step name.
C22_Project(n) ==
    LET shown == ShownRecords(reports[n][2])
        units == StepUnits(n)
    IN  \A i \in 1..Len(units) :
            LET rows == DataRows(TableOf(units[i]))
                at   == RowsBefore(units, i)
            IN  \A k \in 1..Len(rows) :
                    /\ at + k <= Len(shown)
                    /\ (StepCell(rows[k]) = <<>>) <=>
                          (k > 1 /\ StepName(shown[at + k - 1]) = StepName(shown[at + k]))
                    /\ StepCell(rows[k]) # <<>> =>
                          StepCell(rows[k]) = <<StepName(shown[at + k])>>

C22_StepCellBlankOnRepeat ==
    (Finished /\ Cardinality(TitlePositions) = Len(reports)) =>
        \A n \in 1..Len(reports) : C22_Project(n)

\* A story with a table whose second row repeats the step of its first
\* row, followed by the table of another case whose first row is of that
\* same step.
C22_Witness ==
    /\ Finished
    /\ \E n \in 1..Len(reports) :
          /\ Len(StepUnits(n)) = 2
          /\ LET first  == DataRows(TableOf(StepUnits(n)[1]))
                 second == DataRows(TableOf(StepUnits(n)[2]))
             IN  /\ Len(first) = 2
                 /\ StepCell(first[1]) # <<>>
                 /\ StepCell(first[2]) = <<>>
                 /\ Len(second) = 1
                 /\ StepCell(second[1]) = StepCell(first[1])

----------------------------------------------------------------------------
(* Failures outside the call phase.                                        *)

EndsWith(text, suffix) ==
    /\ Len(suffix) <= Len(text)
    /\ SubSeq(text, Len(text) - Len(suffix) + 1, Len(text)) = suffix

\* The charts of the n-th project: the drawing among its blocks, its
\* 'Test Cases' chart and its 'Test Steps' chart.
ChartsOf(n) ==
    Blocks(n)[CHOOSE k \in 1..Len(Blocks(n)) : Blocks(n)[k].type = "Drawing"].contents

CaseChart(n) == ChartsOf(n)[1]

StepChart(n) == ChartsOf(n)[2]

FailedIn(rs) == SelectSeq(rs, LAMBDA r : r.outcome = "failed")

C23_Stored ==
    \A pair \in Stored : pair[2].outcome = "failed" => pair[2].when = "call"

C23_Rendered ==
    (Finished /\ Cardinality(TitlePositions) = Len(reports)) =>
        \A n \in 1..Len(reports) :
            LET rows == HeadedRows(StepUnits(n))
                failed_call == SelectSeq(reports[n][2],
                                  LAMBDA r : r.outcome = "failed" /\ r.when = "call")
            IN  /\ \A k \in 1..Len(rows) :
                      rows[k].row[3].text = <<"failed">> =>
                          /\ rows[k].row[4] # None
                          /\ ~EndsWith(rows[k].row[4].text, SETUP_TEXT)
                          /\ ~EndsWith(rows[k].row[4].text, TEARDOWN_TEXT)
                /\ Len(SelectSeq(rows, LAMBDA x : x.row[3].text = <<"failed">>))
                      = Len(failed_call)
                /\ StepChart(n).data[3] = Len(failed_call)

C23_Delivery ==
    (report # None /\ report' = None /\ report.outcome = "failed" /\ report.when # "call")
        => reports' = reports

\* C23: every stored record with verdict failed is of phase call; the
\* delivery of a failed setup or teardown record leaves the collector as it
\* is; and in a generated report the rows with verdict failed, and the
\* failed count of the step statistics, are those of the failed call
\* records, and no error text of such a row ends with the phase suffix
\* setup or teardown.
C23_FailedOnlyFromCall == [](C23_Stored /\ C23_Rendered) /\ [][C23_Delivery]_vars

\* A generated report with a row of verdict failed.
C23_Witness ==
    /\ Finished
    /\ \E n \in 1..Len(reports) :
          /\ FailedIn(reports[n][2]) # <<>>
          /\ \E k \in 1..Len(HeadedRows(StepUnits(n))) :
                /\ HeadedRows(StepUnits(n))[k].row[3].text = <<"failed">>
                /\ HeadedRows(StepUnits(n))[k].row[4] # None

----------------------------------------------------------------------------
(* The case-overview table against the charts.                             *)

\* The data rows of the case-overview table of the n-th project.
Overview(n) ==
    DataRows(TableOf(Blocks(n)[CHOOSE k \in 1..Len(Blocks(n)) : IsCaseUnit(Blocks(n)[k])]))

\* The count a chart's legend shows in its i-th row: passed, skipped,
\* failed, Sum.
LegendCount(c, i) == NatOf(c.legend.colorNamePairs[i][2][2])

\* The sum of the numbers printed in column col of the rows.
ColumnSum(rows, col) ==
    sum([k \in 1..Len(rows) |-> NatOf(rows[k][col].text)])

\* C24: in a short-mode story, for every project, the passed, skipped and
\* failed columns of the case-overview table add up to the counts the
\* 'Test Steps' chart shows, and the number of overview rows is the Sum of
\* the counts the 'Test Cases' chart shows.
C24_Project(n) ==
    LET overview == Overview(n)
        cases    == CaseChart(n)
        steps    == StepChart(n)
    IN  /\ cases.title = "Test Cases"
        /\ steps.title = "Test Steps "
        /\ \A i \in 1..3 :
              /\ ColumnSum(overview, i + 2) = LegendCount(steps, i)
              /\ LegendCount(steps, i) = steps.data[i]
        /\ Len(overview) = LegendCount(cases, 4)
        /\ Len(overview) = cases.data[1] + cases.data[2] + cases.data[3]

C24_StatisticsAdditive ==
    (Finished /\ short /\ Cardinality(TitlePositions) = Len(reports)) =>
        \A n \in 1..Len(reports) : C24_Project(n)

\* A short-mode story of a project with two overview rows, one of them of
\* a case with a passed and a failed step.
C24_Witness ==
    /\ Finished
    /\ short
    /\ \E n \in 1..Len(reports) :
          LET overview == Overview(n)
          IN  /\ Len(overview) = 2
              /\ \E k \in 1..2 : /\ NatOf(overview[k][3].text) = 1
                                 /\ NatOf(overview[k][5].text) = 1

====
